---------------------------- MODULE Spec2Model ----------------------------
(***************************************************************************)
(* Model of the lung / COVID chest X-ray detection module.                 *)
(*                                                                         *)
(*   covid_analyzer.py   CovidImageAnalyzer: the analysis session          *)
(*                       (self.results), analyze_single_image,             *)
(*                       analyze_category, compare_all_categories,         *)
(*                       create_comparison_report, save_results_to_csv     *)
(*   covid_loader.py     CovidDatasetLoader.get_all_category_images        *)
(*   image_processor.py  LungImageProcessor.detect_nodules,                *)
(*                       analyze_regions, draw_detections                  *)
(*   main.py             process_single_image                              *)
(*   utils.py            load_image                                        *)
(*                                                                         *)
(* An image file is its name; ImageFile gives what the file holds: whether *)
(* cv2.imread can decode it, its shape, and the connected components and   *)
(* contours the library finds on its preprocessed grid.  The geometric     *)
(* filters of the source are applied to those by DetectNodules and         *)
(* AnalyzeRegions.  A call made inside a try block may raise: which call   *)
(* raises is an input (`fault`) of the operation.  Console writes and      *)
(* library calls outside any try block are taken to succeed.              *)
(***************************************************************************)
EXTENDS Integers, Sequences, FiniteSets, TLC

(***************************************************************************)
(* Bounds of the model.                                                    *)
(***************************************************************************)
\* most images a directory listing holds
MaxImages == 2
\* most analyze_single_image calls in one session
MaxCalls == 2
\* largest count typed at the menu (the smallest is -1)
MaxCount == 2
\* largest radius handed to detect_nodules
MaxRadius == 4
\* most boundaries in one thresholded grid
MaxContours == 2

(***************************************************************************)
(* Program constants.                                                      *)
(***************************************************************************)
\* np.pi as a fraction, 355/113
PiNum == 355
PiDen == 113
\* detect_nodules defaults
DefaultMinRadius == 3
DefaultMaxRadius == 20
\* params.minCircularity = 0.5 and params.minConvexity = 0.8, in percent
MinCircularityPct == 50
MinConvexityPct == 80
\* analyze_regions: 50 < area < 1000
MinContourArea == 50
MaxContourArea == 1000
\* enhanced_covid_preprocessing: resize when w > 1024
WidthCap == 1024

\* Python's None and a value that is not None
None == <<>>
Some(x) == <<x>>
NoCategory == ""

\* compare_all_categories iterates these, in this order
CompareCategories == <<"COVID", "Normal", "Lung_Opacity", "Viral_Pneumonia">>
\* main(): choices 1, 2 and 3
MenuCategories == {"COVID", "Normal", "Lung_Opacity"}
Counts == (0 - 1)..MaxCount

(***************************************************************************)
(* The image files of the model.                                           *)
(***************************************************************************)
BlobRound == [pos |-> 1, area |-> 100, circ |-> 80, conv |-> 90]
BlobTiny  == [pos |-> 2, area |-> 10, circ |-> 90, conv |-> 95]
BlobRagged == [pos |-> 3, area |-> 200, circ |-> 40, conv |-> 90]
BlobSecond == [pos |-> 4, area |-> 300, circ |-> 70, conv |-> 85]
RegionRound == [pos |-> 1, area |-> 100, perimeter |-> 40, external |-> TRUE]
RegionHuge  == [pos |-> 3, area |-> 1000, perimeter |-> 120, external |-> TRUE]

ImageNames == {"corrupt.png", "blank.png", "nodule.png", "wide.png"}

ImageFile ==
    [n \in ImageNames |->
        CASE n = "corrupt.png" ->
               [loads |-> FALSE, h |-> 0, w |-> 0, blobs |-> <<>>, regions |-> <<>>]
          [] n = "blank.png" ->
               [loads |-> TRUE, h |-> 512, w |-> 512, blobs |-> <<BlobTiny>>,
                regions |-> <<RegionHuge>>]
          [] n = "nodule.png" ->
               [loads |-> TRUE, h |-> 512, w |-> 512,
                blobs |-> <<BlobRound, BlobTiny>>,
                regions |-> <<RegionRound, RegionHuge>>]
          [] n = "wide.png" ->
               [loads |-> TRUE, h |-> 1024, w |-> 2048,
                blobs |-> <<BlobRound, BlobRagged, BlobSecond>>, regions |-> <<>>]]

\* what os.listdir gives: distinct file names, at most MaxImages of them
Listings ==
    {s \in UNION {[1..n -> ImageNames] : n \in 0..MaxImages} :
        \A a, b \in DOMAIN s : a # b => s[a] # s[b]}

\* what get_dataset_info finds for one category: no images folder (or no
\* dataset folder), or the folder's listing
Scans == {[found |-> FALSE, images |-> <<>>]}
         \cup {[found |-> TRUE, images |-> l] : l \in Listings}

(***************************************************************************)
(* Helpers.                                                                *)
(***************************************************************************)
Abs(x) == IF x < 0 THEN 0 - x ELSE x
Min(a, b) == IF a < b THEN a ELSE b
Max(a, b) == IF a > b THEN a ELSE b
IsPrefix(s, t) == Len(s) <= Len(t) /\ SubSeq(t, 1, Len(s)) = s

\* Python's s[:n]: negative n counts from the end
PySliceTo(s, n) ==
    IF n >= 0 THEN SubSeq(s, 1, Min(n, Len(s)))
    ELSE SubSeq(s, 1, Max(Len(s) + n, 0))

\* f"{num / den:.1f}": the sign and the tenths, ties to even (den # 0, num >= 0;
\* a zero or positive numerator over a negative denominator prints with '-')
Format1f(num, den) ==
    LET a == 10 * Abs(num)
        b == Abs(den)
        q == a \div b
        r == a % b
        t == IF 2 * r > b THEN q + 1
             ELSE IF 2 * r = b THEN q + (q % 2)
             ELSE q
    IN  [neg |-> den < 0, tenths |-> t]

(***************************************************************************)
(* utils.py and image_processor.py: the per-image pipeline.                *)
(***************************************************************************)
\* load_image: cv2.imread gives None for a file it cannot decode -> ValueError
LoadImage(name) ==
    LET f == ImageFile[name]
    IN  IF f.loads
        THEN [raised |-> FALSE, h |-> f.h, w |-> f.w, blobs |-> f.blobs,
              regions |-> f.regions]
        ELSE [raised |-> TRUE, h |-> 0, w |-> 0, blobs |-> <<>>, regions |-> <<>>]

\* the shapes (h, w) of the model for which the double h * (1024 / w) lies just
\* below the integer h * 1024 / w, so that int() gives one less than the quotient
RoundsBelow == {<<561, 1122>>, <<1122, 1122>>}

\* new_height = int(h * scale) with scale = 1024 / w, in double arithmetic
NewHeight(h, w) ==
    LET quotient == (h * WidthCap) \div w
    IN  IF <<h, w>> \in RoundsBelow THEN quotient - 1 ELSE quotient

\* enhanced_covid_preprocessing: the resize of step 1; normalisation, CLAHE and
\* the median blur keep the shape. The code checks no dimension and defines no
\* error of its own. cv2.resize raises cv2.error on a target size with a zero
\* dimension. On an empty grid that is not resized, cv2.normalize, CLAHE and
\* cv2.medianBlur raise cv2.error in the library builds that reject an empty
\* source (rejects_empty) and hand the empty grid through in the others.
EnhancedCovidPreprocessingOn(image, rejects_empty) ==
    IF image.w > WidthCap
    THEN LET new_width == WidthCap
             new_height == NewHeight(image.h, image.w)
         IN  [raised |-> new_height = 0,
              error |-> IF new_height = 0 THEN Some("cv2.error") ELSE None,
              h |-> new_height, w |-> new_width,
              blobs |-> image.blobs, regions |-> image.regions]
    ELSE LET empty == image.h = 0 \/ image.w = 0
         IN  [raised |-> empty /\ rejects_empty,
              error |-> IF empty /\ rejects_empty THEN Some("cv2.error") ELSE None,
              h |-> image.h, w |-> image.w,
              blobs |-> image.blobs, regions |-> image.regions]

\* the call of analyze_single_image, line 26: load_image never gives an empty
\* grid, so the build's treatment of one does not matter there
EnhancedCovidPreprocessing(image) == EnhancedCovidPreprocessingOn(image, TRUE)

\* params.minArea = pi * min_radius^2, params.maxArea = pi * max_radius^2;
\* the detector keeps a component with minArea <= area < maxArea
AreaInRange(area, min_radius, max_radius) ==
    /\ area * PiDen >= PiNum * min_radius * min_radius
    /\ area * PiDen < PiNum * max_radius * max_radius

\* detect_nodules. The code checks neither radius; cv2.SimpleBlobDetector_create
\* of a library build that validates its parameters raises when
\* minArea > maxArea or minArea <= 0, and other builds accept them.
DetectNodules(image, min_radius, max_radius, validates) ==
    IF validates /\ (min_radius * min_radius > max_radius * max_radius
                     \/ min_radius * min_radius <= 0)
    THEN [raised |-> TRUE, keypoints |-> <<>>]
    ELSE LET Keep(c) == /\ AreaInRange(c.area, min_radius, max_radius)
                        /\ c.circ >= MinCircularityPct
                        /\ c.conv >= MinConvexityPct
         IN  [raised |-> FALSE, keypoints |-> SelectSeq(image.blobs, Keep)]

\* cv2.findContours(binary, cv2.RETR_EXTERNAL, ...): of the boundaries of the
\* thresholded grid, the outer ones, in the order of the scan
FindContours(regions) ==
    LET External(c) == c.external
    IN  SelectSeq(regions, External)

\* analyze_regions with the lower area bound taken as area >= 50
AnalyzeRegionsInclusive(image) ==
    LET Keep(c) == /\ MinContourArea <= c.area
                   /\ c.area < MaxContourArea
                   /\ c.perimeter > 0
                   /\ 8 * PiNum * c.area > PiDen * c.perimeter * c.perimeter
    IN  SelectSeq(FindContours(image.regions), Keep)

\* analyze_regions: 50 < area < 1000, perimeter > 0, 4*pi*area/perimeter^2 > 0.5
AnalyzeRegions(image) ==
    LET Keep(c) == /\ MinContourArea < c.area
                   /\ c.area < MaxContourArea
                   /\ c.perimeter > 0
                   /\ 8 * PiNum * c.area > PiDen * c.perimeter * c.perimeter
    IN  SelectSeq(FindContours(image.regions), Keep)

\* draw_detections: one red circle per keypoint, one blue circle per contour,
\* on a colour copy of the grid it is given
DrawDetections(image, keypoints, contours) ==
    [h |-> image.h, w |-> image.w,
     red |-> [j \in 1..Len(keypoints) |-> keypoints[j].pos],
     blue |-> [j \in 1..Len(contours) |-> contours[j].pos]]

(***************************************************************************)
(* covid_analyzer.py: analyze_single_image.                                *)
(***************************************************************************)
\* the calls of the try block, in order; the append sits between
\* display_images and print_analysis_report
Faults == {"none", "load_image", "enhanced_covid_preprocessing", "detect_nodules",
           "analyze_regions", "draw_detections", "display_images",
           "print_analysis_report"}

\* the dict built at lines 41-49
AnalysisResultMerged(category, name, original, keypoints, contours) ==
    [category |-> category, filename |-> name,
     image_size |-> <<original.h, original.w>>,
     blob_detections |-> Len(keypoints),
     contour_detections |-> Len(contours),
     total_findings |->
        Cardinality({keypoints[j].pos : j \in 1..Len(keypoints)}
                    \cup {contours[j].pos : j \in 1..Len(contours)}),
     image_path |-> <<category, name>>]

AnalysisResult(category, name, original, keypoints, contours) ==
    [category |-> category, filename |-> name,
     image_size |-> <<original.h, original.w>>,
     blob_detections |-> Len(keypoints),
     contour_detections |-> Len(contours),
     total_findings |-> Len(keypoints) + Len(contours),
     image_path |-> <<category, name>>]

\* self.results.append(analysis_result)
AppendResultFront(res, entry) == <<entry>> \o res

AppendResult(res, entry) == Append(res, entry)

\* return None, 0, 0
FailureReturn == [result_image |-> None, blobs |-> 0, contours |-> 0]

\* analyze_single_image(image_path, category) on the results list res: the
\* list after the call and the value returned
AnalyzeSingleImage(res, name, category, fault) ==
    LET original == LoadImage(name)
        processed == EnhancedCovidPreprocessing(original)
        \* the default radii pass the parameter validation of every build
        detected == DetectNodules(processed, DefaultMinRadius, DefaultMaxRadius, TRUE)
        keypoints == detected.keypoints
        contours == AnalyzeRegions(processed)
        result_image == DrawDetections(original, keypoints, contours)
        analysis_result == AnalysisResult(category, name, original, keypoints,
                                          contours)
    IN  IF \/ original.raised \/ fault = "load_image"
           \/ processed.raised \/ fault = "enhanced_covid_preprocessing"
           \/ detected.raised \/ fault = "detect_nodules"
           \/ fault \in {"analyze_regions", "draw_detections", "display_images"}
        THEN [results |-> res, ret |-> FailureReturn]
        ELSE IF fault = "print_analysis_report"
        THEN [results |-> AppendResult(res, analysis_result), ret |-> FailureReturn]
        ELSE [results |-> AppendResult(res, analysis_result),
              ret |-> [result_image |-> Some(result_image), blobs |-> Len(keypoints),
                       contours |-> Len(contours)]]

(***************************************************************************)
(* covid_loader.py: get_all_category_images.                               *)
(***************************************************************************)
GetAllCategoryImages(scan, category, max_images) ==
    IF ~scan.found THEN <<>>
    ELSE LET cut == IF max_images # 0 THEN PySliceTo(scan.images, max_images)
                    ELSE scan.images
         IN  [j \in 1..Len(cut) |-> <<category, cut[j]>>]

(***************************************************************************)
(* State.                                                                  *)
(***************************************************************************)
VARIABLES
    results,             \* CovidImageAnalyzer.results
    pc,                  \* "menu", "loop", "summary", "compare", "report", "crashed"
    caller,              \* who called analyze_category: "menu" or "compare"
    category,            \* analyze_category: its argument
    image_paths,         \* analyze_category: the paths it iterates
    i,                   \* analyze_category: position of the next path
    total_blobs,         \* analyze_category: accumulator
    total_contours,      \* analyze_category: accumulator
    ret,                 \* what the last analyze_single_image call returned
    summary,             \* the category summary printed at lines 101-105
    outcomes,            \* history: the calls of this run, in order
    twin,                \* a second run of the same batch, see LoopIteration
    request,             \* history, see AnalyzeCategoryRequested: max_images, folder size
    images_per_category, \* compare_all_categories: its argument
    k,                   \* compare_all_categories: position in CompareCategories
    category_results,    \* compare_all_categories: the dict, in insertion order
    base,                \* history: Len(results) when compare_all_categories began
    table,               \* the rows printed by create_comparison_report
    csv,                 \* rows of data/results/covid_analysis_results.csv
    calls,               \* history: analyze_single_image calls so far
    processor,           \* main.py process_single_image: the last call
    written,             \* main.py: result files written to data/results
    detection,           \* detect_nodules called with explicit radii: the last call
    preprocessing,       \* enhanced_covid_preprocessing on a grid: the last call
    region_analysis      \* analyze_regions on a contour list: the last call

batchVars == <<caller, category, image_paths, i, total_blobs, total_contours,
               summary, outcomes, twin, request>>
compareVars == <<images_per_category, k, category_results, base, table>>
sessionVars == <<results, pc, ret, csv, calls, batchVars, compareVars>>
mainVars == <<processor, written>>
callVars == <<detection, preprocessing, region_analysis>>
vars == <<sessionVars, mainVars, callVars>>

NoTwin == [at |-> 0, blobs |-> 0, contours |-> 0, summary |-> None]

Init ==
    /\ results = <<>>
    /\ pc = "menu"
    /\ caller = "menu"
    /\ category = NoCategory
    /\ image_paths = <<>>
    /\ i = 1
    /\ total_blobs = 0
    /\ total_contours = 0
    /\ ret = None
    /\ summary = None
    /\ outcomes = <<>>
    /\ twin = NoTwin
    /\ request = None
    /\ images_per_category = 0
    /\ k = 1
    /\ category_results = <<>>
    /\ base = 0
    /\ table = <<>>
    /\ csv = 0
    /\ calls = 0
    /\ processor = None
    /\ written = {}
    /\ detection = None
    /\ preprocessing = None
    /\ region_analysis = None

(***************************************************************************)
(* covid_analyzer.py: analyze_category.                                    *)
(***************************************************************************)
\* lines 98-99
Accumulate(blobs, contours, r) ==
    [blobs |-> blobs + r.blobs, contours |-> contours + r.contours]

\* the for loop of line 96 moves to the next path whatever the call returned
NextIndexBreak(j, r, paths) == IF r.result_image = None THEN Len(paths) + 1 ELSE j + 1

NextIndex(j, r, paths) == j + 1

\* lines 101-105: images analyzed, the two totals, the average
CategorySummary(cat, paths, blobs, contours) ==
    [category |-> cat, images |-> Len(paths), blobs |-> blobs,
     contours |-> contours, average |-> Format1f(blobs + contours, Len(paths))]

\* the listing handed to a call keeps the session within MaxCalls
Fits(paths) == calls + Len(paths) <= MaxCalls

\* what analyze_category was asked for and what the folder holds, where recorded
Requested(recorded, max_images, scan) ==
    IF recorded THEN Some([max_images |-> max_images, available |-> Len(scan.images)])
    ELSE None

\* lines 87-94, entered from the menu or from compare_all_categories
EnterCategory(cat, paths, from, requested) ==
    /\ pc' = "loop"
    /\ caller' = from
    /\ category' = cat
    /\ image_paths' = paths
    /\ i' = 1
    /\ total_blobs' = 0
    /\ total_contours' = 0
    /\ summary' = None
    /\ outcomes' = <<>>
    /\ twin' = NoTwin
    /\ request' = requested

\* main() choices 1-3: analyze_category(category, count)
AnalyzeCategoryBody(recorded) ==
    /\ pc = "menu"
    /\ \E cat \in MenuCategories, max_images \in Counts, scan \in Scans :
          LET paths == GetAllCategoryImages(scan, cat, max_images)
          IN  /\ Fits(paths)
              /\ IF paths = <<>>
                 THEN UNCHANGED <<pc, batchVars>>
                 ELSE EnterCategory(cat, paths, "menu",
                                    Requested(recorded, max_images, scan))
    /\ ret' = None
    /\ UNCHANGED <<results, csv, calls, compareVars, mainVars, callVars>>

AnalyzeCategory == AnalyzeCategoryBody(FALSE)

\* the same call, with the request kept as history
AnalyzeCategoryRequested == AnalyzeCategoryBody(TRUE)

\* one iteration of the loop, lines 96-99. The twin run is the same batch run
\* by the same code; where `diverge` is chosen, at one position where the image
\* fails, the twin's image instead succeeds with no blob and no contour.
LoopBody(divergences) ==
    /\ pc = "loop"
    /\ i <= Len(image_paths)
    /\ \E fault \in Faults, diverge \in divergences :
          \* line 97: the one call of this iteration and what it gave
          \E out \in {AnalyzeSingleImage(results, image_paths[i][2], category, fault)} :
          LET zero == [result_image |-> Some(DrawDetections([h |-> 1, w |-> 1], <<>>, <<>>)),
                       blobs |-> 0, contours |-> 0]
              twinRet == IF diverge THEN zero ELSE out.ret
              acc == Accumulate(total_blobs, total_contours, out.ret)
              twinAcc == Accumulate(twin.blobs, twin.contours, twinRet)
          IN  /\ diverge => (twin.at = 0 /\ out.ret.result_image = None)
              /\ results' = out.results
              /\ ret' = Some(out.ret)
              /\ total_blobs' = acc.blobs
              /\ total_contours' = acc.contours
              /\ twin' = [at |-> IF diverge THEN i ELSE twin.at,
                          blobs |-> twinAcc.blobs, contours |-> twinAcc.contours,
                          summary |-> None]
              /\ outcomes' = Append(outcomes,
                                    [path |-> image_paths[i],
                                     ok |-> out.ret.result_image # None,
                                     appended |-> out.results # results])
              /\ i' = NextIndex(i, out.ret, image_paths)
    /\ calls' = calls + 1
    /\ UNCHANGED <<pc, caller, category, image_paths, summary, request, csv,
                   compareVars, mainVars, callVars>>

LoopIteration == LoopBody({FALSE})

LoopIterationTwin == LoopBody(BOOLEAN)

\* lines 101-105: the summary is printed
Summary ==
    /\ pc = "loop"
    /\ i > Len(image_paths)
    /\ pc' = "summary"
    /\ summary' =
          Some(CategorySummary(category, image_paths, total_blobs, total_contours))
    /\ twin' = [twin EXCEPT !.summary =
                    Some(CategorySummary(category, image_paths, twin.blobs, twin.contours))]
    /\ UNCHANGED <<results, ret, csv, calls, caller, category, image_paths, i,
                   total_blobs, total_contours, outcomes, request, compareVars,
                   mainVars, callVars>>

Successes(os) == Cardinality({j \in 1..Len(os) : os[j].ok})

LeaveCategory ==
    /\ caller' = "menu"
    /\ category' = NoCategory
    /\ image_paths' = <<>>
    /\ i' = 1
    /\ total_blobs' = 0
    /\ total_contours' = 0
    /\ summary' = None
    /\ outcomes' = <<>>
    /\ twin' = NoTwin
    /\ request' = None
    /\ ret' = None

\* line 107, back at the menu: the returned totals are dropped
ReturnToMenu ==
    /\ pc = "summary"
    /\ caller = "menu"
    /\ pc' = "menu"
    /\ LeaveCategory
    /\ UNCHANGED <<results, csv, calls, compareVars, mainVars, callVars>>

(***************************************************************************)
(* covid_analyzer.py: compare_all_categories, create_comparison_report,    *)
(* save_results_to_csv.                                                    *)
(***************************************************************************)
\* lines 119-123
CategoryResult(cat, blobs, contours) ==
    [category |-> cat, blobs |-> blobs, contours |-> contours,
     total_findings |-> blobs + contours]

\* lines 141-144: one printed row
ReportRow(result, per_category) ==
    [category |-> result.category, images |-> per_category,
     blobs |-> result.blobs, contours |-> result.contours,
     total |-> result.total_findings,
     average |-> Format1f(result.total_findings, per_category)]

\* lines 185-192: the file holds one row per entry; nothing is written for
\* an empty list
SaveResultsToCsvRows(res, rows) == IF res = <<>> THEN rows ELSE Len(res)

\* main() choice 4: compare_all_categories(count), lines 109-114
CompareAllCategories ==
    /\ pc = "menu"
    /\ \E n \in Counts : images_per_category' = n
    /\ pc' = "compare"
    /\ k' = 1
    /\ category_results' = <<>>
    /\ base' = Len(results)
    /\ table' = <<>>
    /\ ret' = None
    /\ UNCHANGED <<results, csv, calls, batchVars, mainVars, callVars>>

\* line 118: analyze_category for the next category of the loop
CompareCategoryBody(recorded) ==
    /\ pc = "compare"
    /\ k <= Len(CompareCategories)
    /\ \E scan \in Scans :
          LET cat == CompareCategories[k]
              paths == GetAllCategoryImages(scan, cat, images_per_category)
          IN  /\ Fits(paths)
              /\ IF paths = <<>>
                 THEN /\ category_results' =
                            Append(category_results, CategoryResult(cat, 0, 0))
                      /\ k' = k + 1
                      /\ UNCHANGED <<pc, batchVars>>
                 ELSE /\ EnterCategory(cat, paths, "compare",
                                       Requested(recorded, images_per_category, scan))
                      /\ UNCHANGED <<k, category_results>>
    /\ UNCHANGED <<results, ret, csv, calls, images_per_category, base, table,
                   mainVars, callVars>>

CompareCategory == CompareCategoryBody(FALSE)

CompareCategoryRequested == CompareCategoryBody(TRUE)

\* lines 107 and 118-123: analyze_category returns its totals to the loop
ReturnToCompare ==
    /\ pc = "summary"
    /\ caller = "compare"
    /\ pc' = "compare"
    /\ category_results' =
          Append(category_results, CategoryResult(category, total_blobs, total_contours))
    /\ k' = k + 1
    /\ LeaveCategory
    /\ UNCHANGED <<results, csv, calls, images_per_category, base, table, mainVars,
                   callVars>>

\* lines 139-144: the table; dividing by images_per_category = 0 raises
\* ZeroDivisionError, which nothing catches
CreateComparisonReport ==
    /\ pc = "compare"
    /\ k > Len(CompareCategories)
    /\ IF images_per_category = 0
       THEN /\ pc' = "crashed"
            /\ table' = <<>>
       ELSE /\ pc' = "report"
            /\ table' = [j \in 1..Len(category_results) |->
                            ReportRow(category_results[j], images_per_category)]
    /\ UNCHANGED <<results, ret, csv, calls, batchVars, images_per_category, k,
                   category_results, base, mainVars, callVars>>

\* lines 146-173: the charts, then save_results_to_csv, then back at the menu
FinishComparison ==
    /\ pc = "report"
    /\ csv' = SaveResultsToCsvRows(results, csv)
    /\ pc' = "menu"
    /\ images_per_category' = 0
    /\ k' = 1
    /\ category_results' = <<>>
    /\ base' = 0
    /\ table' = <<>>
    /\ UNCHANGED <<results, ret, calls, batchVars, mainVars, callVars>>

Next ==
    \/ AnalyzeCategory
    \/ LoopIteration
    \/ Summary
    \/ ReturnToMenu
    \/ CompareAllCategories
    \/ CompareCategory
    \/ ReturnToCompare
    \/ CreateComparisonReport
    \/ FinishComparison

Spec == Init /\ [][Next]_vars

NextTwin ==
    \/ AnalyzeCategory
    \/ LoopIterationTwin
    \/ Summary
    \/ ReturnToMenu
    \/ CompareAllCategories
    \/ CompareCategory
    \/ ReturnToCompare
    \/ CreateComparisonReport
    \/ FinishComparison

\* the session together with the twin run of each batch
SpecTwin == Init /\ [][NextTwin]_vars

NextRequested ==
    \/ AnalyzeCategoryRequested
    \/ LoopIteration
    \/ Summary
    \/ ReturnToMenu
    \/ CompareAllCategories
    \/ CompareCategoryRequested
    \/ ReturnToCompare
    \/ CreateComparisonReport
    \/ FinishComparison

\* the session with the request of each analyze_category call kept as history
SpecRequested == Init /\ [][NextRequested]_vars

\* the pipeline is synchronous: a started batch keeps taking its next step
FairSpec == Spec /\ WF_vars(LoopIteration) /\ WF_vars(Summary)

(***************************************************************************)
(* Measures over the results list.                                         *)
(***************************************************************************)
RECURSIVE SumField(_, _, _)
SumField(res, cat, field) ==
    IF res = <<>> THEN 0
    ELSE (IF Head(res).category = cat THEN Head(res)[field] ELSE 0)
         + SumField(Tail(res), cat, field)

CountCategory(res, cat) == Cardinality({j \in 1..Len(res) : res[j].category = cat})

Attempted == [j \in 1..Len(outcomes) |-> outcomes[j].path]

(***************************************************************************)
(* C1. When k of the N paths of a batch fail (0 <= k < N), the category    *)
(* summary reports 'Images analyzed' = N - k and the average findings per  *)
(* image over N - k.                                                       *)
(***************************************************************************)
C1_SummaryExcludesFailedImages ==
    pc = "summary" =>
        LET N == Len(image_paths)
            good == Successes(outcomes)
        IN  good > 0 =>
              /\ summary[1].images = good
              /\ summary[1].average = Format1f(total_blobs + total_contours, good)

(***************************************************************************)
(* C2. Two batches that differ only in that one image fails in the first   *)
(* and succeeds with no findings in the second are reported differently    *)
(* (totals, images analyzed, return value).                                *)
(***************************************************************************)
C2_FailureDiffersFromNoFindings ==
    (pc = "summary" /\ twin.at # 0) =>
        <<summary, total_blobs, total_contours>>
            # <<twin.summary, twin.blobs, twin.contours>>

(***************************************************************************)
(* C3. analyze_single_image is atomic on the results list: a call that     *)
(* returns (None, 0, 0) leaves the list as it was, and a call that appends *)
(* an entry returns that entry's counts.                                   *)
(***************************************************************************)
C3_AnalysisIsAtomic ==
    [][calls' = calls + 1 =>
          /\ ret'[1].result_image = None => results' = results
          /\ results' # results =>
                /\ ret'[1].blobs = results'[Len(results')].blob_detections
                /\ ret'[1].contours = results'[Len(results')].contour_detections]_vars

(***************************************************************************)
(* C4. The results list is append-only and ordered: every step leaves the  *)
(* old list as a prefix of the new one, and a step that changes it is an   *)
(* analysis that puts the entry of the image it analysed at the end.       *)
(***************************************************************************)
C4_ResultsAppendOnly ==
    [][/\ IsPrefix(results, results')
       /\ results' # results =>
             /\ calls' = calls + 1
             /\ Len(results') = Len(results) + 1
             /\ results'[Len(results')].image_path = image_paths[i]]_vars

\* two entries appended in turn, and the list written out by save_results_to_csv
C4_Witness ==
    /\ Len(results) >= 2
    /\ results[1].image_path # results[2].image_path
    /\ csv = 2

(***************************************************************************)
(* C5. The summary printed for a category equals the sums and the average  *)
(* over all entries of the results list with that category, earlier runs   *)
(* included.                                                               *)
(***************************************************************************)
C5_SummaryCoversResultsList ==
    pc = "summary" =>
        LET blobs == SumField(results, category, "blob_detections")
            contours == SumField(results, category, "contour_detections")
            n == CountCategory(results, category)
        IN  /\ summary[1].blobs = blobs
            /\ summary[1].contours = contours
            /\ n > 0 => summary[1].average = Format1f(blobs + contours, n)

(***************************************************************************)
(* C6. In the comparison table a category's 'Images' figure and its        *)
(* average use the number of images processed for it in this comparison,   *)
(* not images_per_category.                                                *)
(***************************************************************************)
C6_ReportUsesProcessedCount ==
    pc = "report" =>
        \A j \in 1..Len(table) :
            LET n == CountCategory(SubSeq(results, base + 1, Len(results)),
                                   table[j].category)
            IN  /\ table[j].images = n
                /\ n > 0 => table[j].average = Format1f(table[j].total, n)

(***************************************************************************)
(* C8. Every entry of the results list has total_findings =                *)
(* blob_detections + contour_detections, the two counts being the lengths  *)
(* of the two detectors' outputs for the entry's image.                    *)
(***************************************************************************)
C8_TotalIsSumOfBothMethods ==
    \A j \in 1..Len(results) :
        LET e == results[j]
            grid == EnhancedCovidPreprocessing(LoadImage(e.filename))
            keypoints == DetectNodules(grid, DefaultMinRadius, DefaultMaxRadius,
                                       TRUE).keypoints
            contours == AnalyzeRegions(grid)
        IN  /\ e.blob_detections = Len(keypoints)
            /\ e.contour_detections = Len(contours)
            /\ e.total_findings = e.blob_detections + e.contour_detections

\* an entry whose blob and contour candidates sit at the same place
C8_Witness ==
    \E j \in 1..Len(results) :
        /\ results[j].filename = "nodule.png"
        /\ results[j].blob_detections = 1
        /\ results[j].contour_detections = 1
        /\ results[j].total_findings = 2

(***************************************************************************)
(* C9. A failing image does not abort the batch: analyze_category calls    *)
(* analyze_single_image on every path of its list once, in list order,     *)
(* whatever the earlier calls returned, and then prints its summary.       *)
(***************************************************************************)
C9_EveryPathAttempted ==
    /\ [](pc \in {"loop", "summary"} =>
            /\ i <= Len(image_paths) + 1
            /\ Attempted = SubSeq(image_paths, 1, i - 1)
            /\ pc = "summary" => Attempted = image_paths
            /\ pc = "loop" => (ENABLED LoopIteration \/ ENABLED Summary))
    /\ [][pc = "loop" =>
            \/ pc' = "loop" /\ i' = i + 1 /\ Len(outcomes') = Len(outcomes) + 1
            \/ pc' = "summary" /\ i = Len(image_paths) + 1]_vars

\* the same under the fairness of FairSpec: a started batch reaches its summary
C9_BatchTerminates == (pc = "loop") ~> (pc = "summary")

\* a summary reached although the first image of the batch failed
C9_Witness ==
    /\ pc = "summary"
    /\ Len(outcomes) = 2
    /\ ~outcomes[1].ok
    /\ outcomes[2].ok

(***************************************************************************)
(* C13. A batch run never analyzes more images than requested: for every   *)
(* requested count n, zero and negative included, and every category with  *)
(* m available images, analyze_category analyzes at most max(n, 0) images  *)
(* and exactly min(n, m) when n >= 0.                                      *)
(***************************************************************************)
C13_NeverExceedsRequest ==
    (pc = "summary" /\ request # None) =>
        LET n == request[1].max_images
            m == request[1].available
            analyzed == Len(outcomes)
        IN  /\ analyzed <= Max(n, 0)
            /\ (n >= 0) => (analyzed = Min(n, m))

(***************************************************************************)
(* C15. Every circle drawn on the annotated image is in the coordinate     *)
(* frame of the grid it is drawn on: for every analyzed image, those wider *)
(* than 1024 px included, the grid the candidates were detected on and the *)
(* grid draw_detections annotates have the same dimensions.                *)
(***************************************************************************)
C15_DrawnOnDetectionFrame ==
    (ret # None /\ ret[1].result_image # None /\ outcomes # <<>>) =>
        LET name == outcomes[Len(outcomes)].path[2]
            detected_on == EnhancedCovidPreprocessing(LoadImage(name))
            annotated == ret[1].result_image[1]
        IN  /\ annotated.h = detected_on.h
            /\ annotated.w = detected_on.w

(***************************************************************************)
(* main.py: process_single_image.                                          *)
(***************************************************************************)
\* a path typed at the menu: one of the image files, or a file that is not there
TypedPaths == ImageNames \cup {"missing.png"}

\* LungImageProcessor.preprocess_image: normalisation, CLAHE and the Gaussian
\* blur keep the shape of the grid
PreprocessImage(image) ==
    [raised |-> image.h = 0 \/ image.w = 0, h |-> image.h, w |-> image.w,
     blobs |-> image.blobs, regions |-> image.regions]

\* line 63: len(keypoints) + len(contections); no name contections is bound
\* anywhere in main.py, so evaluating it raises NameError
TotalDetections(keypoints, contours) ==
    [raised |-> TRUE, value |-> 0]

MainFaults == {"none", "load_image", "preprocess_image", "detect_nodules",
               "analyze_regions", "draw_detections", "imwrite", "display_images"}

\* process_single_image(image_path): what it returns and whether
\* data/results/result_<name> was written
ProcessSingleImage(name, fault) ==
    LET failed == [result_image |-> None, total_detections |-> 0]
    IN  IF name \notin ImageNames
        THEN [ret |-> failed, wrote |-> FALSE]
        ELSE
        LET original == LoadImage(name)
            processed == PreprocessImage(original)
            detected == DetectNodules(processed, DefaultMinRadius,
                                      DefaultMaxRadius, TRUE)
            keypoints == detected.keypoints
            contours == AnalyzeRegions(processed)
            result_image == DrawDetections(original, keypoints, contours)
            total_detections == TotalDetections(keypoints, contours)
        IN  IF \/ original.raised \/ fault = "load_image"
               \/ processed.raised \/ fault = "preprocess_image"
               \/ detected.raised \/ fault = "detect_nodules"
               \/ fault \in {"analyze_regions", "draw_detections", "imwrite"}
            THEN [ret |-> failed, wrote |-> FALSE]
            ELSE IF fault = "display_images" \/ total_detections.raised
            THEN [ret |-> failed, wrote |-> TRUE]
            ELSE [ret |-> [result_image |-> Some(result_image),
                           total_detections |-> total_detections.value],
                  wrote |-> TRUE]

\* main() choice 2
ProcessImage ==
    /\ \E name \in TypedPaths, fault \in MainFaults :
          LET out == ProcessSingleImage(name, fault)
          IN  /\ processor' = Some([image_path |-> name, fault |-> fault,
                                    ret |-> out.ret])
              /\ written' = IF out.wrote THEN written \cup {name} ELSE written
    /\ UNCHANGED <<sessionVars, callVars>>

NextMain == ProcessImage

SpecMain == Init /\ [][NextMain]_vars

(***************************************************************************)
(* C7. For an image file that exists and loads and whose preprocessing,    *)
(* detection and drawing succeed, process_single_image returns an          *)
(* annotated image and total detections = keypoints + contours.            *)
(***************************************************************************)
C7_ProcessSingleImageReturnsTotal ==
    processor # None =>
        LET call == processor[1]
        IN  (call.image_path \in ImageNames /\ ImageFile[call.image_path].loads
             /\ call.fault = "none") =>
               LET grid == PreprocessImage(LoadImage(call.image_path))
               IN  /\ call.ret.result_image # None
                   /\ call.ret.total_detections =
                         Len(DetectNodules(grid, DefaultMinRadius, DefaultMaxRadius,
                                           TRUE).keypoints)
                         + Len(AnalyzeRegions(grid))

(***************************************************************************)
(* image_processor.py: detect_nodules with radii chosen by the caller.     *)
(***************************************************************************)
Radii == 0..MaxRadius

DetectNodulesCall ==
    /\ \E name \in {n \in ImageNames : ImageFile[n].loads},
          min_radius \in Radii, max_radius \in Radii, validates \in BOOLEAN :
          LET out == DetectNodules(PreprocessImage(LoadImage(name)), min_radius,
                                   max_radius, validates)
          IN  detection' = Some([image |-> name, min_radius |-> min_radius,
                                 max_radius |-> max_radius, validates |-> validates,
                                 raised |-> out.raised, keypoints |-> out.keypoints])
    /\ UNCHANGED <<sessionVars, mainVars, preprocessing, region_analysis>>

NextDetect == DetectNodulesCall

SpecDetect == Init /\ [][NextDetect]_vars

(***************************************************************************)
(* C10. Blob filter radii with min_radius >= max_radius are rejected: the  *)
(* call fails with a configuration error before any detection runs and     *)
(* returns no candidate list.                                              *)
(***************************************************************************)
C10_BadRadiiRejected ==
    (detection # None /\ detection[1].min_radius >= detection[1].max_radius) =>
        detection[1].raised
(***************************************************************************)
(* enhanced_covid_preprocessing called on a grid of any shape.             *)
(***************************************************************************)
Heights == {0, 1, 2, 3, 512, 561, 1024, 1122, 2048}
Widths == {0, 1, 512, 1024, 1025, 1122, 2048, 3072, 4096}

\* a grid of the given shape, as a numpy array of another caller would be
Grid(h, w) == [raised |-> FALSE, h |-> h, w |-> w, blobs |-> <<>>, regions |-> <<>>]

PreprocessCall ==
    /\ \E h \in Heights, w \in Widths, rejects_empty \in BOOLEAN :
          LET out == EnhancedCovidPreprocessingOn(Grid(h, w), rejects_empty)
          IN  preprocessing' = Some([h |-> h, w |-> w,
                                     rejects_empty |-> rejects_empty,
                                     raised |-> out.raised, error |-> out.error,
                                     out_h |-> out.h, out_w |-> out.w])
    /\ UNCHANGED <<sessionVars, mainVars, detection, region_analysis>>

NextPreprocess == PreprocessCall

SpecPreprocess == Init /\ [][NextPreprocess]_vars

(***************************************************************************)
(* C11. An empty grid (zero width or zero height) given to the             *)
(* preprocessor ends in a distinct invalid-image error: the call raises,   *)
(* the error is the invalid-image error and not a generic library error,   *)
(* and no processed grid, empty or not, is returned.                       *)
(***************************************************************************)
C11_EmptyGridIsInvalidImageError ==
    (preprocessing # None
     /\ (preprocessing[1].h = 0 \/ preprocessing[1].w = 0)) =>
        /\ preprocessing[1].raised
        /\ preprocessing[1].error = Some("InvalidImageError")

(***************************************************************************)
(* C12. For every grid of height h and width w > 1024 the preprocessor's   *)
(* output has width exactly 1024 and a height within 1 pixel of            *)
(* h * 1024 / w; for every grid with w <= 1024 the output has the input's  *)
(* shape (h, w). A grid has both dimensions > 0.                           *)
(***************************************************************************)
C12_OutputShape ==
    (preprocessing # None /\ preprocessing[1].h >= 1 /\ preprocessing[1].w >= 1) =>
        LET call == preprocessing[1]
        IN  /\ ~call.raised
            /\ IF call.w > WidthCap
               THEN /\ call.out_w = WidthCap
                    /\ Abs(call.out_h * call.w - call.h * WidthCap) <= call.w
               ELSE call.out_h = call.h /\ call.out_w = call.w

(***************************************************************************)
(* C16. The downscale step keeps the grid non-empty: for every grid with   *)
(* h >= 1 and w > 1024 the height computed for the resized grid,           *)
(* int(h * 1024 / w), is >= 1, and the resize succeeds, so the grid handed *)
(* to normalisation and the detectors has both dimensions > 0.             *)
(***************************************************************************)
C16_DownscaleKeepsHeight ==
    (preprocessing # None /\ preprocessing[1].h >= 1
     /\ preprocessing[1].w > WidthCap) =>
        /\ preprocessing[1].out_h >= 1
        /\ preprocessing[1].out_w >= 1
        /\ ~preprocessing[1].raised

(***************************************************************************)
(* analyze_regions called on a grid with any boundaries.                   *)
(***************************************************************************)
\* the boundaries of the model: area and perimeter as cv2.contourArea and
\* cv2.arcLength give them, at and next to each bound of the filter
RegionAtMinArea == [pos |-> 2, area |-> 50, perimeter |-> 30, external |-> TRUE]
RegionAboveMinArea == [pos |-> 4, area |-> 51, perimeter |-> 30, external |-> TRUE]
RegionBelowMaxArea == [pos |-> 5, area |-> 999, perimeter |-> 120, external |-> TRUE]
RegionJustRound == [pos |-> 6, area |-> 100, perimeter |-> 50, external |-> TRUE]
RegionNotRound == [pos |-> 7, area |-> 100, perimeter |-> 51, external |-> TRUE]
RegionPoint == [pos |-> 8, area |-> 0, perimeter |-> 0, external |-> TRUE]
RegionHole == [pos |-> 9, area |-> 100, perimeter |-> 40, external |-> FALSE]
RegionMid == [pos |-> 10, area |-> 500, perimeter |-> 90, external |-> TRUE]

Regions == {RegionRound, RegionHuge, RegionAtMinArea, RegionAboveMinArea,
            RegionBelowMaxArea, RegionJustRound, RegionNotRound, RegionPoint,
            RegionHole, RegionMid}

\* the boundaries of one grid are distinct
RegionLists ==
    {s \in UNION {[1..n -> Regions] : n \in 0..MaxContours} :
        \A a, b \in DOMAIN s : a # b => s[a] # s[b]}

AnalyzeRegionsCall ==
    /\ \E regions \in RegionLists :
          LET image == [raised |-> FALSE, h |-> 512, w |-> 512, blobs |-> <<>>,
                        regions |-> regions]
          IN  region_analysis' = Some([regions |-> regions,
                                       potential_nodules |-> AnalyzeRegions(image)])
    /\ UNCHANGED <<sessionVars, mainVars, detection, preprocessing>>

NextRegions == AnalyzeRegionsCall

SpecRegions == Init /\ [][NextRegions]_vars

(***************************************************************************)
(* C14. analyze_regions returns exactly the external contours that pass    *)
(* the filter: a contour is in the output if and only if it is external,   *)
(* 50 < area < 1000 (both strict), its perimeter is > 0 and                *)
(* 4 * pi * area / perimeter^2 > 0.5 (strict); the output keeps the input  *)
(* order and holds no contour twice.                                       *)
(***************************************************************************)
C14_ExactlyTheFilteredContours ==
    region_analysis # None =>
        LET input == region_analysis[1].regions
            output == region_analysis[1].potential_nodules
            At(c) == CHOOSE j \in 1..Len(input) : input[j] = c
        IN  /\ \A a \in 1..Len(output) : \E j \in 1..Len(input) : output[a] = input[j]
            /\ \A j \in 1..Len(input) :
                  (\E a \in 1..Len(output) : output[a] = input[j])
                  <=> (/\ input[j].external
                       /\ 50 < input[j].area
                       /\ input[j].area < 1000
                       /\ input[j].perimeter > 0
                       /\ 8 * PiNum * input[j].area
                            > PiDen * input[j].perimeter * input[j].perimeter)
            /\ \A a, b \in 1..Len(output) : a < b => At(output[a]) < At(output[b])
            /\ \A a, b \in 1..Len(output) : a # b => output[a] # output[b]

\* a call whose grid holds a boundary at the lower area bound, which is left
\* out, and a boundary that is returned
C14_Witness ==
    /\ region_analysis # None
    /\ \E j \in 1..Len(region_analysis[1].regions) :
          region_analysis[1].regions[j] = RegionAtMinArea
    /\ Len(region_analysis[1].potential_nodules) >= 1
    /\ Len(region_analysis[1].potential_nodules) < Len(region_analysis[1].regions)

=============================================================================
